---- MODULE Spec2Model ----
(***************************************************************************)
(* Model of the color-class helpers of the khoj web interface              *)
(* (src/unnamed/part_000): the tailwindColors array, the four conversion   *)
(* functions and the module-level loop that fills colorMap.                *)
(*                                                                         *)
(* Strings are TLA+ strings; a template literal `a${x}b` is the            *)
(* concatenation "a" \o x \o "b".                                          *)
(***************************************************************************)
EXTENDS Integers, Sequences, FiniteSets, TLC

VARIABLES tailwindColors, colorMap, pc, idx, last, prev

vars == <<tailwindColors, colorMap, pc, idx, last, prev>>

(***************************************************************************)
(* Bounds of the model.                                                    *)
(***************************************************************************)
\* Longest prefix of a recognized color name offered as an input.
MaxPrefixLen == 1

(***************************************************************************)
(* Program data.                                                           *)
(***************************************************************************)
\* A plausible slip: the neutral color of the fallbacks listed as a color.
tailwindColorsWithGray ==
    <<"red", "yellow", "green", "blue", "orange", "purple", "pink", "teal",
      "cyan", "lime", "indigo", "fuschia", "rose", "sky", "amber", "emerald",
      "gray">>

\* const tailwindColors = [...]
tailwindColorsLiteral ==
    <<"red", "yellow", "green", "blue", "orange", "purple", "pink", "teal",
      "cyan", "lime", "indigo", "fuschia", "rose", "sky", "amber", "emerald">>

\* Array.prototype.includes: element equality, position by position.
includes(arr, x) == \E i \in 1..Len(arr) : arr[i] = x

\* String.prototype.includes: sub occurs somewhere inside s.
stringIncludes(s, sub) ==
    \/ Len(sub) = 0
    \/ \E i \in 1..(Len(s) - Len(sub) + 1) : SubSeq(s, i, i + Len(sub) - 1) = sub

\* A plausible slip: substring matching against the names instead of
\* element equality.
convertColorToTextClassSubstring(color) ==
    IF \E i \in 1..Len(tailwindColors) : stringIncludes(tailwindColors[i], color)
    THEN "text-" \o color \o "-500"
    ELSE "text-gray-500"

convertColorToTextClass(color) ==
    IF includes(tailwindColors, color)
    THEN "text-" \o color \o "-500"
    ELSE "text-gray-500"

\* A plausible slip: the fallback written with the same trailing space as
\* the recognized branch.
convertToBGGradientClassTrailing(color) ==
    IF includes(tailwindColors, color)
    THEN "bg-gradient-to-b from-[hsl(var(--background))] to-" \o color
         \o "-100/70 dark:from-[hsl(var(--background))] dark:to-" \o color
         \o "-950/30 "
    ELSE "bg-gradient-to-b from-white to-orange-50 "

convertToBGGradientClass(color) ==
    IF includes(tailwindColors, color)
    THEN "bg-gradient-to-b from-[hsl(var(--background))] to-" \o color
         \o "-100/70 dark:from-[hsl(var(--background))] dark:to-" \o color
         \o "-950/30 "
    ELSE "bg-gradient-to-b from-white to-orange-50"

\* A plausible slip: the template written without the separating space.
convertSuggestionColorToTextClassNoSpace(color) ==
    convertToBGGradientClass(color) \o "dark:border dark:border-neutral-700"

\* A plausible slip: the two parts of the template in the other order.
convertSuggestionColorToTextClassSwapped(color) ==
    "dark:border dark:border-neutral-700 " \o convertToBGGradientClass(color)

convertSuggestionColorToTextClass(color) ==
    convertToBGGradientClass(color) \o " dark:border dark:border-neutral-700"

\* A plausible slip: the shade of the text class copied with a typo.
convertColorToBorderClassShade(color) ==
    IF includes(tailwindColors, color)
    THEN "border-" \o color \o "-50"
    ELSE "border-gray-500"

\* A plausible slip: the membership test negated.
convertColorToBorderClassNegated(color) ==
    IF ~includes(tailwindColors, color)
    THEN "border-" \o color \o "-500"
    ELSE "border-gray-500"

convertColorToBorderClass(color) ==
    IF includes(tailwindColors, color)
    THEN "border-" \o color \o "-500"
    ELSE "border-gray-500"

(***************************************************************************)
(* Inputs offered to the exported functions.                               *)
(***************************************************************************)
RecognizedColorSet == {tailwindColorsLiteral[i] : i \in 1..Len(tailwindColorsLiteral)}

UnrecognizedSamples ==
    {"", "gray", "unknown", "mauve", "fuchsia", "Red", "red ", "orange-50"}

Prefixes ==
    {SubSeq(c, 1, n) : c \in RecognizedColorSet, n \in 1..MaxPrefixLen}

Inputs == RecognizedColorSet \cup UnrecognizedSamples \cup Prefixes

(***************************************************************************)
(* State machine.                                                          *)
(***************************************************************************)
NoCall == [fn |-> "none", arg |-> "", outcome |-> "none", value |-> ""]

Returned(f, c, v) == [fn |-> f, arg |-> c, outcome |-> "return", value |-> v]

Thrown(f, c) == [fn |-> f, arg |-> c, outcome |-> "throw", value |-> ""]

\* colorMap[k] = v on a plain object.
setKey(map, k, v) ==
    [x \in (DOMAIN map) \cup {k} |-> IF x = k THEN v ELSE map[x]]

\* Lines 1 and 28 have run: the array exists, colorMap = {}.
Init ==
    /\ tailwindColors = tailwindColorsLiteral
    /\ colorMap = [x \in {} |-> ""]
    /\ pc = "loop"
    /\ idx = 1
    /\ last = NoCall
    /\ prev = NoCall

\* One iteration of `for (const color of tailwindColors)`.
ModuleInitLoopStep ==
    /\ pc = "loop"
    /\ idx <= Len(tailwindColors)
    /\ colorMap' = setKey(colorMap, tailwindColors[idx],
                          convertColorToBorderClass(tailwindColors[idx]))
    /\ idx' = idx + 1
    /\ UNCHANGED <<tailwindColors, pc, last, prev>>

\* A plausible slip: the loop stops one element early.
ModuleInitLoopExitEarly ==
    /\ pc = "loop"
    /\ idx >= Len(tailwindColors)
    /\ pc' = "done"
    /\ UNCHANGED <<tailwindColors, colorMap, idx, last, prev>>

\* The iterator is exhausted: module evaluation is complete.
ModuleInitLoopExit ==
    /\ pc = "loop"
    /\ idx > Len(tailwindColors)
    /\ pc' = "done"
    /\ UNCHANGED <<tailwindColors, colorMap, idx, last, prev>>

\* A plausible slip: unrecognized input rejected instead of defaulted.
CallTextClassThrowing(c) ==
    /\ pc = "done"
    /\ prev' = last
    /\ last' = IF includes(tailwindColors, c)
               THEN Returned("textClass", c, convertColorToTextClass(c))
               ELSE Thrown("textClass", c)
    /\ UNCHANGED <<tailwindColors, colorMap, pc, idx>>

CallTextClass(c) ==
    /\ pc = "done"
    /\ prev' = last
    /\ last' = Returned("textClass", c, convertColorToTextClass(c))
    /\ UNCHANGED <<tailwindColors, colorMap, pc, idx>>

CallBackgroundGradientClass(c) ==
    /\ pc = "done"
    /\ prev' = last
    /\ last' = Returned("backgroundGradientClass", c, convertToBGGradientClass(c))
    /\ UNCHANGED <<tailwindColors, colorMap, pc, idx>>

CallSuggestionColorClass(c) ==
    /\ pc = "done"
    /\ prev' = last
    /\ last' = Returned("suggestionColorClass", c,
                        convertSuggestionColorToTextClass(c))
    /\ UNCHANGED <<tailwindColors, colorMap, pc, idx>>

\* A plausible slip: the result memoised in the exported map.
CallBorderClassCaching(c) ==
    /\ pc = "done"
    /\ prev' = last
    /\ last' = Returned("borderClass", c, convertColorToBorderClass(c))
    /\ colorMap' = setKey(colorMap, c, convertColorToBorderClass(c))
    /\ UNCHANGED <<tailwindColors, pc, idx>>

CallBorderClass(c) ==
    /\ pc = "done"
    /\ prev' = last
    /\ last' = Returned("borderClass", c, convertColorToBorderClass(c))
    /\ UNCHANGED <<tailwindColors, colorMap, pc, idx>>

Next ==
    \/ ModuleInitLoopStep
    \/ ModuleInitLoopExit
    \/ \E c \in Inputs : CallTextClass(c)
    \/ \E c \in Inputs : CallBackgroundGradientClass(c)
    \/ \E c \in Inputs : CallSuggestionColorClass(c)
    \/ \E c \in Inputs : CallBorderClass(c)

Spec == Init /\ [][Next]_vars

(***************************************************************************)
(* Properties.                                                             *)
(***************************************************************************)
Recognized(c) == \E i \in 1..Len(tailwindColors) : tailwindColors[i] = c

StartsWith(s, p) == Len(s) >= Len(p) /\ SubSeq(s, 1, Len(p)) = p

EndsWith(s, p) == Len(s) >= Len(p) /\ SubSeq(s, Len(s) - Len(p) + 1, Len(s)) = p

DarkBorderLiteral == "dark:border dark:border-neutral-700"

GradientFallback == "bg-gradient-to-b from-white to-orange-50"

\* C1 (as stated): the result of suggestionColorClass(c) is
\* backgroundGradientClass(c) followed immediately, with no separator, by
\* "dark:border dark:border-neutral-700"; for an unrecognized c it is
\* "bg-gradient-to-b from-white to-orange-50dark:border dark:border-neutral-700".
C1_NoSeparator ==
    last.fn = "suggestionColorClass" =>
        /\ last.value = convertToBGGradientClass(last.arg) \o DarkBorderLiteral
        /\ ~Recognized(last.arg) =>
               last.value =
                   "bg-gradient-to-b from-white to-orange-50dark:border dark:border-neutral-700"

\* C1 (amended): the result of suggestionColorClass(c) is
\* backgroundGradientClass(c), then exactly one space, then
\* "dark:border dark:border-neutral-700"; for an unrecognized c it is
\* "bg-gradient-to-b from-white to-orange-50 dark:border dark:border-neutral-700".
C1_OneSpaceSeparator ==
    last.fn = "suggestionColorClass" =>
        /\ last.value = convertToBGGradientClass(last.arg) \o " " \o DarkBorderLiteral
        /\ Len(last.value) =
               Len(convertToBGGradientClass(last.arg)) + 1 + Len(DarkBorderLiteral)
        /\ ~Recognized(last.arg) =>
               last.value =
                   "bg-gradient-to-b from-white to-orange-50 dark:border dark:border-neutral-700"

C1_Witness ==
    /\ last = Returned("suggestionColorClass", "unknown",
                       "bg-gradient-to-b from-white to-orange-50 dark:border dark:border-neutral-700")
    /\ prev.fn = "suggestionColorClass"
    /\ prev.arg = "red"

\* C2: textClass(c) is "text-" + c + "-500" when c is a recognized color and
\* "text-gray-500" otherwise.
C2_TextClass ==
    last.fn = "textClass" =>
        last.value = IF Recognized(last.arg)
                     THEN "text-" \o last.arg \o "-500"
                     ELSE "text-gray-500"

C2_Witness ==
    /\ last = Returned("textClass", "red", "text-red-500")
    /\ prev = Returned("textClass", "mauve", "text-gray-500")

\* C3: borderClass(c) is "border-" + c + "-500" when c is a recognized color
\* and "border-gray-500" otherwise.
C3_BorderClass ==
    last.fn = "borderClass" =>
        last.value = IF Recognized(last.arg)
                     THEN "border-" \o last.arg \o "-500"
                     ELSE "border-gray-500"

C3_Witness ==
    /\ last = Returned("borderClass", "teal", "border-teal-500")
    /\ prev = Returned("borderClass", "fuchsia", "border-gray-500")

\* C4: once the module-level loop has finished, the keys of colorMap are
\* exactly the recognized colors and colorMap[k] = borderClass(k) for each.
C4_ColorMapComplete ==
    pc = "done" =>
        /\ DOMAIN colorMap = {tailwindColors[i] : i \in 1..Len(tailwindColors)}
        /\ \A k \in DOMAIN colorMap : colorMap[k] = convertColorToBorderClass(k)

C4_Witness ==
    /\ pc = "done"
    /\ Cardinality(DOMAIN colorMap) = 16
    /\ "sky" \in DOMAIN colorMap
    /\ colorMap["sky"] = "border-sky-500"

\* C5: for every input c the result of suggestionColorClass(c) ends with
\* "dark:border dark:border-neutral-700".
C5_SuggestionSuffix ==
    last.fn = "suggestionColorClass" => EndsWith(last.value, DarkBorderLiteral)

C5_Witness ==
    /\ last.fn = "suggestionColorClass"
    /\ last.arg = "emerald"
    /\ prev.fn = "suggestionColorClass"
    /\ prev.arg = ""
    /\ EndsWith(last.value, DarkBorderLiteral)
    /\ EndsWith(prev.value, DarkBorderLiteral)

\* The value each operation yields for an input that is not recognized.
IsFallbackOf(f, v) ==
    CASE f = "textClass" -> v = "text-gray-500"
      [] f = "borderClass" -> v = "border-gray-500"
      [] f = "backgroundGradientClass" -> v = GradientFallback
      [] f = "suggestionColorClass" ->
             StartsWith(v, GradientFallback) /\ EndsWith(v, DarkBorderLiteral)
      [] OTHER -> FALSE

\* C6: every call of the four operations returns a string and never ends in
\* an error, for every input including "" and unknown names; an unrecognized
\* input yields the operation's fallback value.
C6_Total ==
    last.fn # "none" =>
        /\ last.outcome = "return"
        /\ last.value \in STRING
        /\ ~Recognized(last.arg) => IsFallbackOf(last.fn, last.value)

C6_Witness ==
    /\ last.fn = "textClass"
    /\ last.arg = ""
    /\ last.outcome = "return"
    /\ prev.fn = "borderClass"
    /\ prev.arg = "unknown"
    /\ prev.outcome = "return"

\* C7: after module initialization, a call of any of the four operations
\* leaves colorMap and the recognized colors unchanged, and a call that
\* repeats the previous function and input returns the same result.
C7_ReadOnlyAfterInit ==
    [][pc = "done" =>
          /\ colorMap' = colorMap
          /\ tailwindColors' = tailwindColors
          /\ (last'.fn = last.fn /\ last'.arg = last.arg) =>
                 last'.value = last.value]_vars

C7_Witness ==
    /\ pc = "done"
    /\ last.fn = "borderClass"
    /\ last.arg = "Red"
    /\ prev = last
    /\ DOMAIN colorMap = RecognizedColorSet

\* C8: backgroundGradientClass(c) is, for a recognized c, the two-stop
\* gradient string ending in exactly one trailing space; for an unrecognized
\* c it is "bg-gradient-to-b from-white to-orange-50", with no trailing space.
C8_BackgroundGradient ==
    last.fn = "backgroundGradientClass" =>
        IF Recognized(last.arg)
        THEN /\ last.value =
                    "bg-gradient-to-b from-[hsl(var(--background))] to-"
                    \o last.arg
                    \o "-100/70 dark:from-[hsl(var(--background))] dark:to-"
                    \o last.arg \o "-950/30 "
             /\ EndsWith(last.value, "-950/30 ")
        ELSE /\ last.value = "bg-gradient-to-b from-white to-orange-50"
             /\ ~EndsWith(last.value, " ")

C8_Witness ==
    /\ last.fn = "backgroundGradientClass"
    /\ last.arg = "blue"
    /\ EndsWith(last.value, "dark:to-blue-950/30 ")
    /\ prev = Returned("backgroundGradientClass", "orange-50", GradientFallback)

\* C9: in every state during and after the construction of colorMap, every
\* key is a recognized color, no value is the fallback "border-gray-500",
\* and the value under key m is "border-" + m + "-500".
C9_NoFallbackInColorMap ==
    \A k \in DOMAIN colorMap :
        /\ Recognized(k)
        /\ colorMap[k] # "border-gray-500"
        /\ colorMap[k] = "border-" \o k \o "-500"

C9_Witness ==
    /\ pc = "loop"
    /\ DOMAIN colorMap = {"red", "yellow", "green", "blue", "orange"}
    /\ colorMap["orange"] = "border-orange-500"

\* C10: "gray" is not a recognized color; textClass(c) = "text-gray-500"
\* exactly when c is not recognized, borderClass(c) = "border-gray-500"
\* exactly when c is not recognized, and two distinct recognized colors never
\* get the same text class or the same border class.
C10_FallbackUnambiguous ==
    /\ ~Recognized("gray")
    /\ last.fn = "textClass" =>
           (last.value = "text-gray-500" <=> ~Recognized(last.arg))
    /\ last.fn = "borderClass" =>
           (last.value = "border-gray-500" <=> ~Recognized(last.arg))
    /\ ( /\ last.fn \in {"textClass", "borderClass"}
         /\ prev.fn = last.fn
         /\ Recognized(last.arg)
         /\ Recognized(prev.arg)
         /\ last.arg # prev.arg ) => last.value # prev.value

C10_Witness ==
    /\ last.fn = "textClass"
    /\ last.arg = "rose"
    /\ prev.fn = "textClass"
    /\ prev.arg = "red"
    /\ last.value # prev.value

====
